---- MODULE Spec2Model ----
(***************************************************************************)
(* A model of the filing retrieval and text-extraction pipeline of         *)
(* src/SEC_API_Analysis.py.  Each component is a state machine of its own: *)
(*   SpecFetch   query_filings (pagination loop and random sampling)       *)
(*   SpecEnrich  enrich_header_data with get_submission_data               *)
(*   SpecText    get_filing_text                                           *)
(*   SpecMain    main from line 291 on: state_counts,                      *)
(*               process_filings_documents, analyze_filings, state_agg     *)
(*   SpecItem1   extract_item1_business                                    *)
(* Network calls are inputs: each call draws one of the things the remote  *)
(* end can do (serve a body, answer with another status, raise).           *)
(* Texts are sequences of whitespace-separated words; joining strings with *)
(* a single blank is concatenation of their word sequences.                *)
(***************************************************************************)
EXTENDS Integers, Sequences, FiniteSets, TLC

VARIABLES
    pc,             \* position of the component being run
    N,              \* records the source holds in total
    page_size,      \* query_filings argument
    desired_count,  \* query_filings argument
    start,          \* query_filings local: offset of the next page
    filings_list,   \* query_filings local: records collected so far
    requests,       \* offsets passed to api.get_filings, in call order
    sleeps,         \* number of time.sleep(1) calls made
    fail,           \* how a page request failed: "none", "nofilings", "raise"
    result,         \* the value the component returned
    filings_df,     \* the batch of filing records handed to a component
    header_data,    \* enrich_header_data local: rows built so far
    resp,           \* the latest response of the profile endpoint
    file_resp,      \* the response to requests.get(file_link)
    headers_df,     \* main: the enriched rows, with AI_Flag once analysed
    clean_docs,     \* main: accession number -> filing text
    doc_calls,      \* the document requests made, in call order
    state_counts,   \* main: filings per state
    state_agg,      \* main: filings and AI filings per state
    item_text,      \* extract_item1_business argument, as lexemes
    segs,           \* the pieces the text was put together from
    bank_8k,        \* process_sec_filings: the 8-K rows of the two banks
    filing_texts,   \* process_sec_filings: row index -> downloaded text
    freq_first_topics   \* process_sec_filings: records per (CIK, FirstTopic)

vars == <<pc, N, page_size, desired_count, start, filings_list, requests,
          sleeps, fail, result, filings_df, header_data, resp, file_resp,
          headers_df, clean_docs, doc_calls, state_counts, state_agg,
          item_text, segs, bank_8k, filing_texts, freq_first_topics>>

fetchVars == <<N, page_size, desired_count, start, filings_list, requests,
               sleeps>>

enrichVars == <<header_data, resp>>

textVars == <<file_resp>>

mainVars == <<headers_df, clean_docs, doc_calls, state_counts, state_agg>>

item1Vars == <<item_text, segs>>

scrapeVars == <<bank_8k, filing_texts, freq_first_topics>>

\* The variables of the components a specification does not run.
NotFetch == <<filings_df, enrichVars, textVars, mainVars, item1Vars,
    scrapeVars>>

NotEnrich == <<fetchVars, textVars, mainVars, item1Vars,
    scrapeVars>>

NotText == <<filings_df, fetchVars, enrichVars, mainVars, item1Vars,
    scrapeVars>>

NotMain == <<fetchVars, enrichVars, textVars, item1Vars,
    scrapeVars>>

NotItem1 == <<filings_df, fetchVars, enrichVars, textVars, mainVars,
    scrapeVars>>

NotScrape ==
    <<filings_df, fetchVars, enrichVars, textVars, mainVars, item1Vars>>

\* ----------------------------------------------------------------- bounds
MaxN == 5
MaxPageSize == 3
MaxDesired == 4

\* ---------------------------------------------------------------- helpers
Min(a, b) == IF a < b THEN a ELSE b

Max(a, b) == IF a > b THEN a ELSE b

CeilDiv(a, b) == (a + b - 1) \div b

Range(s) == {s[i] : i \in DOMAIN s}

NoResult == <<"no result">>

\* ========================================================= query_filings
\* The source: record r (1..total) is the r-th filing in filedAt order; a
\* page request with "from" f and "size" s serves records f+1 .. f+s.
Page(total, from, size) ==
    [i \in 1..Min(size, Max(total - from, 0)) |-> from + i]

\* What api.get_filings can do with one query: answer with the page, answer
\* with a payload that has no "filings" key, or raise.
ApiResponses(total, from, size) ==
    { [kind |-> "ok", filings |-> Page(total, from, size)],
      [kind |-> "nofilings", filings |-> <<>>],
      [kind |-> "raise", filings |-> <<>>] }

\* result.get("filings", [])
ResultFilings(reply) == IF reply.kind = "ok" THEN reply.filings ELSE <<>>

NextStartStuck(from, size) == from

\* start += page_size
NextStart(from, size) == from + size

WhileCondLeq(len, desired) == len <= desired

\* while len(filings_list) < desired_count
WhileCond(len, desired) == len < desired

SampleWithReplacement(population, k) ==
    { [i \in 1..k |-> population[f[i]]] : f \in [1..k -> DOMAIN population] }

\* random.sample(population, k): k elements at distinct positions, any order
RandomSample(population, k) ==
    { [i \in 1..k |-> population[f[i]]] :
        f \in { g \in [1..k -> DOMAIN population] :
                  \A i, j \in 1..k : i # j => g[i] # g[j] } }

NoReduce(list, desired) == {list}

\* if len(filings_list) > desired_count: random.sample(...)
SampleStep(list, desired) ==
    IF Len(list) > desired THEN RandomSample(list, desired) ELSE {list}

\* The other components' variables while query_filings runs.
IdleEnrich ==
    /\ header_data = <<>>
    /\ resp = [kind |-> "none"]

IdleText == file_resp = [kind |-> "none"]

IdleItem1 == item_text = <<>> /\ segs = <<>>

IdleScrape ==
    bank_8k = <<>> /\ filing_texts = <<>> /\ freq_first_topics = <<>>

IdleMain ==
    /\ headers_df = <<>>
    /\ clean_docs = <<>>
    /\ doc_calls = <<>>
    /\ state_counts = <<>>
    /\ state_agg = <<>>

InitFetch ==
    /\ pc = "while"
    /\ N \in 0..MaxN
    /\ page_size \in 1..MaxPageSize
    /\ desired_count \in 0..MaxDesired
    /\ start = 0
    /\ filings_list = <<>>
    /\ requests = <<>>
    /\ sleeps = 0
    /\ fail = "none"
    /\ result = NoResult
    /\ filings_df = <<>>
    /\ IdleEnrich /\ IdleText /\ IdleMain /\ IdleItem1
    /\ IdleScrape

\* One iteration of the while loop: lines 63-85.
query_filings_page ==
    /\ pc = "while"
    /\ WhileCond(Len(filings_list), desired_count)
    /\ \E reply \in ApiResponses(N, start, page_size) :
         /\ requests' = Append(requests, start)
         /\ IF reply.kind = "raise"
            THEN /\ pc' = "raised"
                 /\ fail' = "raise"
                 /\ UNCHANGED <<start, filings_list, sleeps>>
            ELSE LET filings == ResultFilings(reply) IN
                 /\ fail' = IF reply.kind = "ok" THEN fail ELSE reply.kind
                 /\ IF filings = <<>>
                    THEN /\ pc' = "exit"
                         /\ UNCHANGED <<start, filings_list, sleeps>>
                    ELSE /\ filings_list' = filings_list \o filings
                         /\ start' = NextStart(start, page_size)
                         /\ sleeps' = sleeps + 1
                         /\ pc' = "while"
    /\ UNCHANGED <<N, page_size, desired_count, result, NotFetch>>

\* The loop condition is false: line 63.
query_filings_exit ==
    /\ pc = "while"
    /\ ~WhileCond(Len(filings_list), desired_count)
    /\ pc' = "exit"
    /\ UNCHANGED <<fetchVars, fail, result, NotFetch>>

\* Lines 87-93: sample down to desired_count and return.
query_filings_return ==
    /\ pc = "exit"
    /\ result' \in SampleStep(filings_list, desired_count)
    /\ pc' = "done"
    /\ UNCHANGED <<fetchVars, fail, NotFetch>>

NextFetch == query_filings_page \/ query_filings_exit \/ query_filings_return

SpecFetch == InitFetch /\ [][NextFetch]_vars

\* query_filings runs on one thread with nothing to wait for but its own
\* calls, each of which returns or raises: a step that can be taken is taken.
SpecFetchFair == SpecFetch /\ WF_vars(NextFetch)

\* ------------------------------------------------- claims on query_filings
Injective(s) == \A i, j \in DOMAIN s : i # j => s[i] # s[j]

\* C1: with a source of N records served in pages of page_size and no failed
\* page request, query_filings returns exactly min(N, desired_count) records.
C1_ReturnsMinOfTotalAndTarget ==
    (pc = "done" /\ fail = "none") =>
        Len(result) = Min(N, desired_count)

C1_Witness ==
    /\ pc = "done" /\ fail = "none"
    /\ Len(requests) >= 2
    /\ Len(filings_list) > desired_count
    /\ Len(result) = desired_count

\* C2 as stated: query_filings never issues more than
\* ceil(min(N, desired_count) / page_size) page requests.
C2_AtMostCeilRequests ==
    fail = "none" =>
        Len(requests) <= CeilDiv(Min(N, desired_count), page_size)

\* C2 amended: the loop issues ceil(desired_count / page_size) requests when
\* N >= desired_count and ceil(N / page_size) + 1 when N < desired_count (the
\* last one is the request that returns zero records); never more than
\* ceil(min(N, desired_count) / page_size) + 1.
C2_RequestsWithExhaustionProbe ==
    /\ Len(requests) <= CeilDiv(Min(N, desired_count), page_size) + 1
    /\ (pc \in {"exit", "done"} /\ fail = "none") =>
          Len(requests) = IF N >= desired_count
                          THEN CeilDiv(desired_count, page_size)
                          ELSE CeilDiv(N, page_size) + 1

C2_Witness ==
    /\ pc = "done" /\ fail = "none"
    /\ N > page_size /\ N < desired_count
    /\ Len(requests) = CeilDiv(N, page_size) + 1

\* C3: a failed page request is treated as exhaustion: nothing propagates to
\* the caller, and query_filings returns what the earlier pages collected
\* (reduced to desired_count if more).
C3_FailureTreatedAsExhaustion ==
    fail # "none" =>
        /\ pc # "raised"
        /\ pc = "done" =>
              /\ Len(result) = Min(Len(filings_list), desired_count)
              /\ Range(result) \subseteq Range(filings_list)

\* C4: the sampling step yields exactly desired_count records, each a
\* collected record and none taken twice, when more than desired_count were
\* collected; otherwise it yields the collected records unchanged.
C4_SamplingStep ==
    pc = "done" =>
        IF Len(filings_list) > desired_count
        THEN /\ Len(result) = desired_count
             /\ Range(result) \subseteq Range(filings_list)
             /\ Injective(result)
        ELSE result = filings_list

C4_Witness ==
    /\ pc = "done"
    /\ desired_count >= 2
    /\ Len(filings_list) > desired_count
    /\ Injective(result)
    /\ \E i \in DOMAIN result : result[i] # filings_list[i]

\* The page requests so far went to offsets 0, page_size, 2*page_size, ...
OffsetsInOrder ==
    \A k \in DOMAIN requests : requests[k] = (k - 1) * page_size

\* A step that issues a page request.
IssuesRequest == requests' # requests

\* C13: the page requests go to offsets 0, page_size, 2*page_size, ... in
\* that order; one time.sleep lies between any two consecutive requests;
\* every iteration adds at least one record or ends the loop; no request is
\* issued once desired_count records were collected or a page came back
\* empty; and the loop terminates.
C13_OrderedPacedTerminatingLoop ==
    /\ []OffsetsInOrder
    /\ [][IssuesRequest =>
            /\ requests' = Append(requests, Len(requests) * page_size)
            /\ sleeps = Len(requests)
            /\ pc = "while"
            /\ Len(filings_list) < desired_count
            /\ (Len(filings_list') > Len(filings_list) \/ pc' # "while")
            /\ sleeps' = IF pc' = "while" THEN sleeps + 1 ELSE sleeps]_vars
    /\ [][pc # "while" => requests' = requests]_vars
    /\ <>(pc \in {"done", "raised"})

C13_Witness ==
    /\ pc = "done"
    /\ fail = "none"
    /\ page_size = 2
    /\ requests = <<0, 2, 4>>
    /\ sleeps = 2
    /\ Len(filings_list) = 3

\* ==================================== get_submission_data, enrich_header_data
MaxBatch == 2

\* The variables of query_filings while another component runs.
IdleFetch ==
    /\ N = 0 /\ page_size = 1 /\ desired_count = 0 /\ start = 0
    /\ filings_list = <<>> /\ requests = <<>> /\ sleeps = 0

Ciks == {"0000719739", "0000834285"}

\* A filing record as query_filings builds it (lines 76-83); record i of a
\* batch has accession number i.
FilingRecord(i, cik) ==
    [cik |-> cik, companyName |-> "INDEX NAME", accessionNumber |-> i,
     fileLink |-> i]

Batches(len) ==
    { [i \in 1..len |-> FilingRecord(i, c[i])] : c \in [1..len -> Ciks] }

\* A JSON object: "keys" holds the keys that are present; a key that is not
\* present carries the empty string (or the empty address) and is never read.
EmptyAddress == [keys |-> {}, state |-> "", city |-> "", zip |-> ""]

EmptyDict ==
    [keys |-> {}, stateOfIncorporation |-> "", businessAddress |-> EmptyAddress,
     mailingAddress |-> EmptyAddress, name |-> "", sic |-> ""]

\* dict.get(key, default)
Get(d, key, default) == IF key \in d.keys THEN d[key] ELSE default

BusinessAddresses ==
    { [keys |-> st[1] \cup cz, state |-> st[2],
       city |-> IF cz = {} THEN "" ELSE "Boulder",
       zip |-> IF cz = {} THEN "" ELSE "80301"] :
        st \in { <<{}, "">>, <<{"state"}, "">>, <<{"state"}, "CA">> },
        cz \in { {}, {"city", "zip"} } }

MailingAddresses ==
    { [keys |-> {}, state |-> "", city |-> "", zip |-> ""],
      [keys |-> {"state"}, state |-> "", city |-> "", zip |-> ""],
      [keys |-> {"state"}, state |-> "NY", city |-> "", zip |-> ""] }

\* No call of the profile endpoint was made yet.
NoResponse == [kind |-> "none", json |-> EmptyDict]

\* The profile documents the submissions endpoint may serve.
Profiles ==
    { [keys |-> soi[1] \cup ba[1] \cup ma[1] \cup nm,
       stateOfIncorporation |-> soi[2],
       businessAddress |-> ba[2],
       mailingAddress |-> ma[2],
       name |-> IF nm = {} THEN "" ELSE "PROFILE NAME",
       sic |-> IF nm = {} THEN "" ELSE "7372"] :
        soi \in { <<{}, "">>, <<{"stateOfIncorporation"}, "">>,
                  <<{"stateOfIncorporation"}, "DE">> },
        ba \in { <<{}, EmptyAddress>> }
                 \cup { <<{"businessAddress"}, a>> : a \in BusinessAddresses },
        ma \in { <<{}, EmptyAddress>> }
                 \cup { <<{"mailingAddress"}, a>> : a \in MailingAddresses },
        nm \in { {}, {"name", "sic"} } }

\* What requests.get on the submissions URL can do: a 200 response with a
\* profile, another status, or a network exception.
ProfileResponses ==
    { [kind |-> "ok", json |-> p] : p \in Profiles }
    \cup { [kind |-> "status", json |-> EmptyDict],
           [kind |-> "exception", json |-> EmptyDict] }

\* get_submission_data, lines 108-112, for a response that arrived.
get_submission_data(response) ==
    IF response.kind = "ok" THEN response.json ELSE EmptyDict

StateOfMailingFirst(submission) ==
    LET state == Get(submission, "stateOfIncorporation", "") IN
    IF state # "" THEN state
    ELSE LET state2 == Get(Get(submission, "mailingAddress", EmptyAddress),
                           "state", "") IN
         IF state2 # "" THEN state2
         ELSE Get(Get(submission, "businessAddress", EmptyAddress), "state", "")

\* Lines 127-131.
StateOf(submission) ==
    LET state == Get(submission, "stateOfIncorporation", "") IN
    IF state # "" THEN state
    ELSE LET state2 == Get(Get(submission, "businessAddress", EmptyAddress),
                           "state", "") IN
         IF state2 # "" THEN state2
         ELSE Get(Get(submission, "mailingAddress", EmptyAddress), "state", "")

\* Lines 132-143.
HeaderRow(row, submission) ==
    [CIK |-> row.cik,
     CompanyName |-> Get(submission, "name", row.companyName),
     SIC |-> Get(submission, "sic", ""),
     State |-> StateOf(submission),
     City |-> Get(Get(submission, "businessAddress", EmptyAddress), "city", ""),
     Zip |-> Get(Get(submission, "businessAddress", EmptyAddress), "zip", ""),
     AccessionNumber |-> row.accessionNumber,
     FileLink |-> row.fileLink]

InitEnrich ==
    /\ pc = "enrich"
    /\ filings_df \in UNION { Batches(len) : len \in 0..MaxBatch }
    /\ header_data = <<>>
    /\ resp = NoResponse
    /\ fail = "none"
    /\ result = NoResult
    /\ IdleFetch /\ IdleText /\ IdleMain /\ IdleItem1
    /\ IdleScrape

\* One iteration of the loop of enrich_header_data: lines 125-143.  An
\* exception of requests.get (line 107) is caught nowhere.
enrich_header_data_row ==
    /\ pc = "enrich"
    /\ Len(header_data) < Len(filings_df)
    /\ \E response \in ProfileResponses :
         LET row == filings_df[Len(header_data) + 1] IN
         /\ resp' = response
         /\ IF response.kind = "exception"
            THEN /\ pc' = "raised"
                 /\ fail' = "exception"
                 /\ UNCHANGED header_data
            ELSE /\ header_data' =
                      Append(header_data,
                             HeaderRow(row, get_submission_data(response)))
                 /\ UNCHANGED <<pc, fail>>
    /\ UNCHANGED <<filings_df, result, NotEnrich>>

\* Lines 144-148: the frame of no rows has no "FilingDate" column, and
\* headers_df["FilingDate"] raises KeyError.
enrich_header_data_return ==
    /\ pc = "enrich"
    /\ Len(header_data) = Len(filings_df)
    /\ IF header_data = <<>>
       THEN pc' = "raised" /\ fail' = "keyerror" /\ UNCHANGED result
       ELSE pc' = "done" /\ result' = header_data /\ UNCHANGED fail
    /\ UNCHANGED <<filings_df, enrichVars, NotEnrich>>

NextEnrich == enrich_header_data_row \/ enrich_header_data_return

SpecEnrich == InitEnrich /\ [][NextEnrich]_vars

\* ------------------------------------------- claims on enrich_header_data
Last(s) == s[Len(s)]

\* C5: a failed profile fetch (a non-200 response or a network exception)
\* never aborts enrich_header_data: the failed record still gets its row, in
\* input order, with State, SIC, City and Zip empty and the record's own
\* name, and the rows built before it stay as they were.
C5_FailedProfileNeverAborts ==
    resp.kind \in {"status", "exception"} =>
        /\ pc # "raised"
        /\ header_data # <<>>
        /\ LET r == Last(header_data)
               rec == filings_df[Len(header_data)] IN
           /\ r.AccessionNumber = rec.accessionNumber
           /\ r.State = "" /\ r.SIC = "" /\ r.City = "" /\ r.Zip = ""
           /\ r.CompanyName = rec.companyName

\* The first non-empty string of a chain, the empty string when there is none.
FirstNonEmpty(chain) ==
    IF \E i \in DOMAIN chain : chain[i] # ""
    THEN chain[CHOOSE i \in DOMAIN chain :
                 chain[i] # "" /\ \A j \in 1..(i - 1) : chain[j] = ""]
    ELSE ""

\* The three candidate fields of a profile, an unset field read as "".
StateCandidates(p) ==
    << IF "stateOfIncorporation" \in p.keys THEN p.stateOfIncorporation ELSE "",
       IF "businessAddress" \in p.keys /\ "state" \in p.businessAddress.keys
       THEN p.businessAddress.state ELSE "",
       IF "mailingAddress" \in p.keys /\ "state" \in p.mailingAddress.keys
       THEN p.mailingAddress.state ELSE "" >>

\* C6: the State of a row is the first non-empty value among the profile's
\* stateOfIncorporation, businessAddress.state and mailingAddress.state, in
\* that order, and the empty string when none is set.
C6_StateFallbackOrder ==
    resp.kind = "ok" =>
        Last(header_data).State = FirstNonEmpty(StateCandidates(resp.json))

C6_Witness ==
    /\ resp.kind = "ok"
    /\ StateCandidates(resp.json) = <<"", "CA", "NY">>
    /\ Last(header_data).State = "CA"

\* ========================================================= get_filing_text
MaxBlocks == 2

\* Bodies of document blocks, as word sequences.
BodyAI == <<"We", "use", "Artificial", "Intelligence", "daily.">>

BodyNoAI == <<"We", "use", "AI.">>

BodyTwoSentences ==
    <<"We", "use", "AI.", "We", "use", "artificial", "intelligence.">>

BodyBroken == <<"It", "is", "artificial.", "Intelligence", "helps.">>

\* The contents a <type> tag may hold; NoType is a block without the tag.
TypeLabels == {"10-K", " 10-K ", "10-K/A", "10-k", "EX-99.1"}

NoType == [present |-> FALSE, label |-> ""]

TypeTags == {NoType} \cup { [present |-> TRUE, label |-> l] : l \in TypeLabels }

Blocks(bodies) == [type : TypeTags, body : bodies]

PageHead == <<"EDGAR", "Filing", "Detail">>

\* Pages of at most n <document> blocks.
Pages(n, bodies) ==
    UNION { { [head |-> PageHead, docs |-> d] :
                d \in [1..k -> Blocks(bodies)] } : k \in 0..n }

NoPage == [head |-> <<>>, docs |-> <<>>]

\* What requests.get(file_link) can do: 200 with a page, another status, or
\* an exception.
FileResponses(pages) ==
    { [kind |-> "ok", page |-> pg] : pg \in pages }
    \cup { [kind |-> "status", page |-> NoPage],
           [kind |-> "exception", page |-> NoPage] }

NoStrip(label) == label

\* str.strip() on the labels above
Strip(label) == IF label = " 10-K " THEN "10-K" ELSE label

\* doc.get_text(separator=" ", strip=True): the block's strings, stripped,
\* joined by a blank
DocText(doc) ==
    (IF doc.type.present THEN <<Strip(doc.type.label)>> ELSE <<>>) \o doc.body

RECURSIVE ConcatDocs(_)
ConcatDocs(docs) ==
    IF docs = <<>> THEN <<>> ELSE DocText(Head(docs)) \o ConcatDocs(Tail(docs))

\* soup.get_text(separator=" ", strip=True)
PageText(page) == page.head \o ConcatDocs(page.docs)

\* Lines 184-187: index of the first block that passes the test, 0 if none.
RECURSIVE FirstTenK(_, _)
FirstTenK(docs, i) ==
    IF i > Len(docs) THEN 0
    ELSE IF docs[i].type.present /\ Strip(docs[i].type.label) = "10-K"
         THEN i
         ELSE FirstTenK(docs, i + 1)

\* get_filing_text, lines 179-194, given what requests.get did.
get_filing_text(response) ==
    IF response.kind = "ok"
    THEN LET i == FirstTenK(response.page.docs, 1) IN
         IF i > 0 THEN DocText(response.page.docs[i])
         ELSE PageText(response.page)
    ELSE <<>>

InitText ==
    /\ pc = "call"
    /\ file_resp \in FileResponses(Pages(MaxBlocks, {BodyAI, BodyNoAI}))
    /\ fail = "none"
    /\ result = NoResult
    /\ filings_df = <<>>
    /\ IdleFetch /\ IdleEnrich /\ IdleMain /\ IdleItem1
    /\ IdleScrape

get_filing_text_call ==
    /\ pc = "call"
    /\ result' = get_filing_text(file_resp)
    /\ pc' = "done"
    /\ UNCHANGED <<file_resp, fail, NotText>>

NextText == get_filing_text_call

SpecText == InitText /\ [][NextText]_vars

\* ---------------------------------------------- claims on get_filing_text
\* The labels that equal "10-K" once trimmed.
TenKLabels == {"10-K", " 10-K "}

IsTenK(doc) == doc.type.present /\ doc.type.label \in TenKLabels

\* C7: get_filing_text returns the text of the first block whose trimmed
\* type label is exactly "10-K"; the whole page's text only if no block
\* matches; and the empty string, without raising, on a non-200 response or
\* an exception.
C7_FirstTenKBlockElsePage ==
    pc = "done" =>
        IF file_resp.kind = "ok"
        THEN LET docs == file_resp.page.docs
                 hits == { i \in DOMAIN docs : IsTenK(docs[i]) } IN
             IF hits = {}
             THEN result = PageText(file_resp.page)
             ELSE result =
                    DocText(docs[CHOOSE i \in hits : \A j \in hits : i <= j])
        ELSE result = <<>>

C7_Witness ==
    /\ pc = "done"
    /\ file_resp.kind = "ok"
    /\ Len(file_resp.page.docs) = 2
    /\ file_resp.page.docs[1].type.label = " 10-K "
    /\ file_resp.page.docs[2].type.label = "10-K"
    /\ file_resp.page.docs[1].body # file_resp.page.docs[2].body
    /\ result = <<"10-K">> \o file_resp.page.docs[1].body

\* ==================================================== extract_ai_sentences
\* Words are separated by one blank, so the pattern 'artificial intelligence'
\* (IGNORECASE) matches where a word ending in "artificial" is followed by a
\* word starting with "intelligence".
EndsWithArtificial(w) == w \in {"Artificial", "artificial"}

StartsWithIntelligence(w) == w \in {"Intelligence", "intelligence."}

\* The word ends in one of . ! ?
EndsSentence(w) ==
    w \in {"AI.", "daily.", "intelligence.", "artificial.", "helps."}

\* pattern_ai.search(s)
PatternAISearch(s) ==
    \E i \in 1..(Len(s) - 1) :
        EndsWithArtificial(s[i]) /\ StartsWithIntelligence(s[i + 1])

\* re.split(r'(?<=[.!?])\s+', text): cut after each word that ends a sentence
\* and is followed by another word
RECURSIVE SplitSentences(_)
SplitSentences(text) ==
    LET cuts == { i \in 1..(Len(text) - 1) : EndsSentence(text[i]) } IN
    IF cuts = {} THEN <<text>>
    ELSE LET c == CHOOSE i \in cuts : \A j \in cuts : i <= j IN
         <<SubSeq(text, 1, c)>>
             \o SplitSentences(SubSeq(text, c + 1, Len(text)))

\* Lines 220-222.
extract_ai_sentences(text) == SelectSeq(SplitSentences(text), PatternAISearch)

\* ======================== main: process_filings_documents, analyze_filings
MaxDocs == 3

\* The profiles behind the rows main works on.
MainProfiles ==
    { EmptyDict,
      [EmptyDict EXCEPT !.keys = {"stateOfIncorporation"},
                        !.stateOfIncorporation = "CA"],
      [EmptyDict EXCEPT !.keys = {"stateOfIncorporation"},
                        !.stateOfIncorporation = "NY"] }

\* The pages the document endpoint serves to main.
MainPages ==
    { [head |-> PageHead,
       docs |-> << [type |-> [present |-> TRUE, label |-> "10-K"],
                    body |-> BodyNoAI],
                   [type |-> [present |-> TRUE, label |-> "EX-99.1"],
                    body |-> BodyAI] >>],
      [head |-> PageHead,
       docs |-> << [type |-> [present |-> TRUE, label |-> "10-K"],
                    body |-> BodyAI] >>],
      [head |-> BodyTwoSentences, docs |-> <<>>],
      [head |-> PageHead,
       docs |-> << [type |-> [present |-> TRUE, label |-> "10-k"],
                    body |-> BodyBroken] >>] }

\* The State values of the model in the order groupby sorts them.
SortedStates == <<"", "CA", "DE", "NY">>

NoStateFilter(df) == df

\* df[df["State"] != ""]
NonEmptyState(df) == SelectSeq(df, LAMBDA r : r.State # "")

\* The keys of df.groupby("State"), sorted.
GroupKeys(df) ==
    SelectSeq(SortedStates, LAMBDA st : \E i \in DOMAIN df : df[i].State = st)

GroupRows(df, st) == SelectSeq(df, LAMBDA r : r.State = st)

RECURSIVE SumFlags(_)
SumFlags(rows) ==
    IF rows = <<>> THEN 0 ELSE Head(rows).AI_Flag + SumFlags(Tail(rows))

\* Line 291: .groupby("State").size().reset_index(name="Count")
StateCounts(df) ==
    LET keys == GroupKeys(df) IN
    [k \in DOMAIN keys |->
        [State |-> keys[k], Count |-> Len(GroupRows(df, keys[k]))]]

StateAggCountingFlags(df) ==
    LET keys == GroupKeys(df) IN
    [k \in DOMAIN keys |->
        [State |-> keys[k],
         Total_Filings |-> Len(GroupRows(df, keys[k])),
         AI_Filings |-> Len(GroupRows(df, keys[k]))]]

\* Lines 303-306: .groupby("State").agg(count, sum).reset_index()
StateAgg(df) ==
    LET keys == GroupKeys(df) IN
    [k \in DOMAIN keys |->
        [State |-> keys[k],
         Total_Filings |-> Len(GroupRows(df, keys[k])),
         AI_Filings |-> SumFlags(GroupRows(df, keys[k]))]]

StoreDocIfText(docs, acc, text) ==
    IF text = <<>> THEN docs
    ELSE [a \in DOMAIN docs \cup {acc} |-> IF a = acc THEN text ELSE docs[a]]

\* Line 238: clean_docs[row["accessionNumber"]] = filing_text
StoreDoc(docs, acc, text) ==
    [a \in DOMAIN docs \cup {acc} |-> IF a = acc THEN text ELSE docs[a]]

\* Lines 274-276: 1 if len(ai_sentences.get(acc, [])) > 0 else 0
AIFlag(ai_sentences, acc) ==
    IF Len(IF acc \in DOMAIN ai_sentences THEN ai_sentences[acc] ELSE <<>>) > 0
    THEN 1 ELSE 0

\* main reaches line 291 with the batch query_filings returned and the rows
\* enrich_header_data built from it (a batch of no records never gets here:
\* enrich_header_data raises on it).
InitMain ==
    /\ pc = "state_counts"
    /\ \E len \in 1..MaxDocs :
         /\ filings_df = [i \in 1..len |-> FilingRecord(i, "0000719739")]
         /\ \E sub \in [1..len -> MainProfiles] :
              headers_df = [i \in 1..len |-> HeaderRow(filings_df[i], sub[i])]
    /\ clean_docs = <<>>
    /\ doc_calls = <<>>
    /\ state_counts = <<>>
    /\ state_agg = <<>>
    /\ fail = "none"
    /\ result = NoResult
    /\ IdleFetch /\ IdleEnrich /\ IdleText /\ IdleItem1
    /\ IdleScrape

\* Line 291.
main_state_counts ==
    /\ pc = "state_counts"
    /\ state_counts' = StateCounts(NonEmptyState(headers_df))
    /\ pc' = "docs"
    /\ UNCHANGED <<filings_df, headers_df, clean_docs, doc_calls, state_agg,
                   fail, result, NotMain>>

\* One iteration of the loop of process_filings_documents: lines 235-238.
process_filings_documents_row ==
    /\ pc = "docs"
    /\ Len(doc_calls) < Len(filings_df)
    /\ \E response \in FileResponses(MainPages) :
         LET row == filings_df[Len(doc_calls) + 1] IN
         /\ doc_calls' = Append(doc_calls, [link |-> row.fileLink,
                                            response |-> response])
         /\ clean_docs' = StoreDoc(clean_docs, row.accessionNumber,
                                   get_filing_text(response))
    /\ UNCHANGED <<pc, filings_df, headers_df, state_counts, state_agg,
                   fail, result, NotMain>>

\* analyze_filings, lines 254-277, once process_filings_documents returned.
\* item1_data is only printed.
analyze_filings ==
    /\ pc = "docs"
    /\ Len(doc_calls) = Len(filings_df)
    /\ LET ai_sentences ==
               [acc \in DOMAIN clean_docs |->
                   extract_ai_sentences(clean_docs[acc])] IN
       headers_df' =
           [i \in DOMAIN headers_df |->
               headers_df[i] @@
               [AI_Flag |-> AIFlag(ai_sentences, headers_df[i].AccessionNumber)]]
    /\ pc' = "state_agg"
    /\ UNCHANGED <<filings_df, clean_docs, doc_calls, state_counts, state_agg,
                   fail, result, NotMain>>

\* Lines 303-306.
main_state_agg ==
    /\ pc = "state_agg"
    /\ state_agg' = StateAgg(NonEmptyState(headers_df))
    /\ pc' = "done"
    /\ UNCHANGED <<filings_df, headers_df, clean_docs, doc_calls, state_counts,
                   fail, result, NotMain>>

NextMain ==
    \/ main_state_counts
    \/ process_filings_documents_row
    \/ analyze_filings
    \/ main_state_agg

SpecMain == InitMain /\ [][NextMain]_vars

\* ----------------------------------------------------- claims on main
\* The text holds the phrase "Artificial Intelligence", in any case.
Mentions(text) ==
    \E i \in DOMAIN text :
        /\ i + 1 \in DOMAIN text
        /\ text[i] \in {"Artificial", "artificial"}
        /\ text[i + 1] \in {"Intelligence", "intelligence."}

Accessions == { filings_df[i].accessionNumber : i \in DOMAIN filings_df }

\* C8: process_filings_documents requests every record's document in batch
\* order and maps every accession number of the batch; a record whose fetch
\* failed maps to the empty text and gets AI_Flag 0, and every other record's
\* flag is decided by its own document alone.
C8_FailedFetchIsEmptyText ==
    /\ \A k \in DOMAIN doc_calls : doc_calls[k].link = filings_df[k].fileLink
    /\ pc \in {"state_agg", "done"} =>
          /\ Len(doc_calls) = Len(filings_df)
          /\ DOMAIN clean_docs = Accessions
          /\ \A i \in DOMAIN filings_df :
               LET r == doc_calls[i].response
                   acc == filings_df[i].accessionNumber IN
               /\ headers_df[i].AccessionNumber = acc
               /\ r.kind # "ok" =>
                     clean_docs[acc] = <<>> /\ headers_df[i].AI_Flag = 0
               /\ r.kind = "ok" =>
                     headers_df[i].AI_Flag =
                        IF Mentions(get_filing_text(r)) THEN 1 ELSE 0

C8_Witness ==
    /\ pc = "done"
    /\ Len(filings_df) = 3
    /\ doc_calls[1].response.kind = "ok" /\ headers_df[1].AI_Flag = 1
    /\ doc_calls[2].response.kind = "exception" /\ headers_df[2].AI_Flag = 0
    /\ doc_calls[3].response.kind = "ok" /\ headers_df[3].AI_Flag = 1

RECURSIVE SumAIFilings(_)
SumAIFilings(table) ==
    IF table = <<>> THEN 0
    ELSE Head(table).AI_Filings + SumAIFilings(Tail(table))

\* C10 as stated: the sum of AI_Filings over the rows of state_agg equals the
\* number of records whose text mentions "Artificial Intelligence", whatever
\* the records' states are.
C10_SumCountsEveryMention ==
    pc = "done" =>
        SumAIFilings(state_agg) =
            Cardinality({ i \in DOMAIN headers_df :
                            Mentions(clean_docs[headers_df[i].AccessionNumber]) })

\* C10 amended: the sum of AI_Filings over the rows of state_agg equals the
\* number of records with a non-empty State whose text mentions "Artificial
\* Intelligence".
C10_SumCountsMentionsWithState ==
    pc = "done" =>
        SumAIFilings(state_agg) =
            Cardinality({ i \in DOMAIN headers_df :
                            /\ headers_df[i].State # ""
                            /\ Mentions(clean_docs[headers_df[i].AccessionNumber]) })

C10_Witness ==
    /\ pc = "done"
    /\ Len(headers_df) = 3
    /\ \A i \in DOMAIN headers_df : headers_df[i].State # ""
    /\ headers_df[1].State # headers_df[2].State
    /\ Cardinality({ i \in DOMAIN headers_df :
                       Mentions(clean_docs[headers_df[i].AccessionNumber]) }) = 2
    /\ SumAIFilings(state_agg) = 2

\* ------------------------------------------- claims on the state tables
\* The records of the batch whose State is st.
RecordsOfState(st) == { i \in DOMAIN headers_df : headers_df[i].State = st }

\* No row of the table has the empty key or a key no record carries, and
\* every non-empty State of the batch has exactly one row.
KeysAreTheStates(table) ==
    /\ \A k \in DOMAIN table :
         table[k].State # "" /\ RecordsOfState(table[k].State) # {}
    /\ \A i \in DOMAIN headers_df :
         headers_df[i].State # "" =>
            Cardinality({ k \in DOMAIN table :
                            table[k].State = headers_df[i].State }) = 1

\* C11: in state_counts and state_agg a record whose State is empty is
\* counted in no group: there is no row for the empty key and no row for a
\* key no record carries, and each state's Count / Total_Filings is the
\* number of records of the batch with that State.
C11_EmptyStateInNoGroup ==
    /\ pc # "state_counts" =>
          /\ KeysAreTheStates(state_counts)
          /\ \A k \in DOMAIN state_counts :
               state_counts[k].Count =
                  Cardinality(RecordsOfState(state_counts[k].State))
    /\ pc = "done" =>
          /\ KeysAreTheStates(state_agg)
          /\ \A k \in DOMAIN state_agg :
               state_agg[k].Total_Filings =
                  Cardinality(RecordsOfState(state_agg[k].State))

C11_Witness ==
    /\ pc = "done"
    /\ Len(headers_df) = 3
    /\ Cardinality(RecordsOfState("")) = 1
    /\ Cardinality(RecordsOfState("NY")) = 2
    /\ state_counts = << [State |-> "NY", Count |-> 2] >>
    /\ Len(state_agg) = 1 /\ state_agg[1].Total_Filings = 2

\* ================================================== extract_item1_business
MaxSegs == 4

\* A text is a sequence of lexemes: a word, a number, a dot, or " " for one
\* whitespace character.  re.IGNORECASE folds the case of the letters.
Fold(lex) ==
    CASE lex \in {"Item", "item"} -> "ITEM"
      [] lex = "Business" -> "BUSINESS"
      [] lex = "Risk" -> "RISK"
      [] lex = "Factors" -> "FACTORS"
      [] OTHER -> lex

Lit(lex) == [kind |-> "lit", lex |-> lex]

Opt(lex) == [kind |-> "opt", lex |-> lex]

WsStar == [kind |-> "ws*", lex |-> " "]

\* ITEM\s+1\s*\.?\s*BUSINESS
StartPattern ==
    << Lit("ITEM"), Lit(" "), WsStar, Lit("1"), WsStar, Opt("."), WsStar,
       Lit("BUSINESS") >>

\* ITEM\s+1A\s*\.?\s*RISK\s+FACTORS
EndPattern ==
    << Lit("ITEM"), Lit(" "), WsStar, Lit("1A"), WsStar, Opt("."), WsStar,
       Lit("RISK"), Lit(" "), WsStar, Lit("FACTORS") >>

\* The positions p such that pat[k..] matches txt[pos .. p-1].
RECURSIVE MatchEnds(_, _, _, _)
MatchEnds(pat, k, txt, pos) ==
    IF k > Len(pat) THEN {pos}
    ELSE LET here == pos <= Len(txt) /\ Fold(txt[pos]) = pat[k].lex IN
         CASE pat[k].kind = "lit" ->
                IF here THEN MatchEnds(pat, k + 1, txt, pos + 1) ELSE {}
           [] pat[k].kind = "opt" ->
                (IF here THEN MatchEnds(pat, k + 1, txt, pos + 1) ELSE {})
                    \cup MatchEnds(pat, k + 1, txt, pos)
           [] pat[k].kind = "ws*" ->
                (IF here THEN MatchEnds(pat, k, txt, pos + 1) ELSE {})
                    \cup MatchEnds(pat, k + 1, txt, pos)

\* The lookahead (?=ITEM\s+1A\s*\.?\s*RISK\s+FACTORS) succeeds at position j.
EndMarkerAt(txt, j) == MatchEnds(EndPattern, 1, txt, j) # {}

\* The positions at or after e where the lookahead succeeds.
LookaheadHits(txt, e) == { j \in e..(Len(txt) + 1) : EndMarkerAt(txt, j) }

LastHit(js) == CHOOSE j \in js : \A k \in js : k <= j

\* .*? stops at the first position where the lookahead succeeds
FirstHit(js) == CHOOSE j \in js : \A k \in js : j <= k

\* The greedy quantifiers of the start marker try the longest match first.
GreedyEnd(ends) == CHOOSE e \in ends : \A k \in ends : k <= e

\* The match of the whole pattern that starts at position i: <<i, j>> for the
\* span txt[i .. j-1], or <<>> when there is none.  The start marker ends in
\* the literal BUSINESS, so every way of matching it ends at the same place.
MatchAt(txt, i) ==
    LET ends == { e \in MatchEnds(StartPattern, 1, txt, i) :
                    LookaheadHits(txt, e) # {} } IN
    IF ends = {} THEN <<>>
    ELSE <<i, FirstHit(LookaheadHits(txt, GreedyEnd(ends)))>>

\* Lines 206-208: matches[0] of re.findall, the whole of the leftmost match
\* (the pattern has no group), or "".
extract_item1_business(txt) ==
    LET starts == { i \in 1..Len(txt) : MatchAt(txt, i) # <<>> } IN
    IF starts = {} THEN <<>>
    ELSE LET m == MatchAt(txt, FirstHit(starts)) IN SubSeq(txt, m[1], m[2] - 1)

\* The pieces texts are put together from.
SegText(name) ==
    CASE name = "START" -> <<"ITEM", " ", "1", ".", " ", "BUSINESS">>
      [] name = "start" -> <<"Item", " ", " ", "1", " ", "Business">>
      [] name = "END" -> <<"ITEM", " ", "1A", ".", " ", "RISK", " ", "FACTORS">>
      [] name = "end" -> <<"Item", " ", "1A", " ", "Risk", " ", " ", "Factors">>
      [] name = "foo" -> <<" ", "Foo", " ", "bar.", " ">>
      [] name = "baz" -> <<" ", "Baz", ".", " ">>
      [] name = "nostart" -> <<"ITEM", "1", ".", " ", "BUSINESS", " ">>
      [] name = "noend" -> <<"ITEM", " ", "1A", ".", " ", "RISK", "FACTORS", " ">>

SegNames == {"START", "start", "END", "end", "foo", "baz", "nostart", "noend"}

RECURSIVE Flatten(_)
Flatten(names) ==
    IF names = <<>> THEN <<>>
    ELSE SegText(Head(names)) \o Flatten(Tail(names))

InitItem1 ==
    /\ pc = "call"
    /\ segs \in UNION { [1..n -> SegNames] : n \in 0..MaxSegs }
    /\ item_text = Flatten(segs)
    /\ fail = "none"
    /\ result = NoResult
    /\ filings_df = <<>>
    /\ IdleFetch /\ IdleEnrich /\ IdleText /\ IdleMain
    /\ IdleScrape

extract_item1_business_call ==
    /\ pc = "call"
    /\ result' = extract_item1_business(item_text)
    /\ pc' = "done"
    /\ UNCHANGED <<item_text, segs, fail, NotItem1>>

NextItem1 == extract_item1_business_call

SpecItem1 == InitItem1 /\ [][NextItem1]_vars

\* --------------------------------------- claims on extract_item1_business
StartSegs == {"START", "start"}

EndSegs == {"END", "end"}

\* The first start marker of the text and the first end marker after it, as
\* indexes into segs; 0 when there is none.
FirstStartSeg ==
    IF \E a \in DOMAIN segs : segs[a] \in StartSegs
    THEN CHOOSE a \in DOMAIN segs :
           segs[a] \in StartSegs /\ \A k \in 1..(a - 1) : segs[k] \notin StartSegs
    ELSE 0

FirstEndSegAfter(a) ==
    IF a > 0 /\ \E b \in (a + 1)..Len(segs) : segs[b] \in EndSegs
    THEN CHOOSE b \in (a + 1)..Len(segs) :
           segs[b] \in EndSegs /\ \A k \in (a + 1)..(b - 1) : segs[k] \notin EndSegs
    ELSE 0

\* C9 as stated: the text strictly between the first start marker and the
\* first end marker after it, both markers excluded; the empty string if the
\* start marker is absent or no end marker follows it.
C9_StrictlyBetweenMarkers ==
    pc = "done" =>
        LET a == FirstStartSeg
            b == FirstEndSegAfter(a) IN
        result = IF b > 0 THEN Flatten(SubSeq(segs, a + 1, b - 1)) ELSE <<>>

\* C9 amended: the text from the beginning of the first start marker up to
\* the first end marker after it: the start marker is part of the result,
\* the end marker is not; the empty string if the start marker is absent or
\* no end marker follows it.
C9_FromStartMarkerToEndMarker ==
    pc = "done" =>
        LET a == FirstStartSeg
            b == FirstEndSegAfter(a) IN
        result = IF b > 0 THEN Flatten(SubSeq(segs, a, b - 1)) ELSE <<>>

C9_Witness ==
    /\ pc = "done"
    /\ segs = <<"START", "foo", "END", "baz">>
    /\ result = <<"ITEM", " ", "1", ".", " ", "BUSINESS",
                  " ", "Foo", " ", "bar.", " ">>

\* ====================== src/SEC_Scrape_Analysis.py: process_sec_filings
MaxRows == 4

\* bank_ciks, in ascending order
SortedCiks == <<719739, 834285>>

\* A downloaded filing is a sequence of lines; "label" says that the line
\* starts with ITEM INFORMATION:, and "rest" is what follows on the line.
\* Every label of these texts has its topic on the same line.
Line(label, rest) == [label |-> label, rest |-> rest]

ScrapeTexts ==
    { << Line(FALSE, "CONFORMED SUBMISSION TYPE: 8-K"),
         Line(TRUE, "Regulation FD Disclosure"),
         Line(TRUE, "Financial Statements and Exhibits") >>,
      << Line(TRUE, " Other Events "),
         Line(FALSE, "FILED AS OF DATE: 20230301") >>,
      << Line(FALSE, "CONFORMED SUBMISSION TYPE: 8-K") >> }

\* download_filing returned None (or an empty text): line 158 stores nothing.
NoText == <<>>

\* str.strip() on the topics above
StripTopic(topic) == IF topic = " Other Events " THEN "Other Events" ELSE topic

\* extract_first_topic, lines 72-82
extract_first_topic(txt) ==
    LET labels == { k \in DOMAIN txt : txt[k].label } IN
    IF labels = {} THEN "Unknown"
    ELSE StripTopic(txt[CHOOSE k \in labels : \A j \in labels : k <= j].rest)

\* filing_texts.get(idx, "")
TextOf(texts, idx) == IF idx \in DOMAIN texts THEN texts[idx] ELSE <<>>

\* The topics of the model in the order groupby sorts them.
SortedTopics == <<"Other Events", "Regulation FD Disclosure", "Unknown">>

\* All (CIK, FirstTopic) keys in the order groupby sorts them.
SortedKeys ==
    [k \in 1..(Len(SortedCiks) * Len(SortedTopics)) |->
        [CIK |-> SortedCiks[((k - 1) \div Len(SortedTopics)) + 1],
         FirstTopic |-> SortedTopics[((k - 1) % Len(SortedTopics)) + 1]]]

RowsOfKey(df, key) ==
    { i \in DOMAIN df :
        df[i].CIK = key.CIK /\ df[i].FirstTopic = key.FirstTopic }

\* Line 164: .groupby(['CIK', 'FirstTopic']).size().reset_index(name='Frequency')
GroupBySize(df) ==
    LET keys == SelectSeq(SortedKeys, LAMBDA key : RowsOfKey(df, key) # {}) IN
    [k \in DOMAIN keys |->
        [CIK |-> keys[k].CIK, FirstTopic |-> keys[k].FirstTopic,
         Frequency |-> Cardinality(RowsOfKey(df, keys[k]))]]

Reorderings(table) ==
    { [k \in DOMAIN table |-> table[f[k]]] :
        f \in { g \in [DOMAIN table -> DOMAIN table] :
                  \A i, j \in DOMAIN table : i # j => g[i] # g[j] } }

SortValuesAscending(table) ==
    { t \in Reorderings(table) :
        \A k \in 1..(Len(t) - 1) : t[k].Frequency <= t[k + 1].Frequency }

\* Line 165: sort_values(by='Frequency', ascending=False).  The default
\* kind is quicksort, which is not stable: rows of equal Frequency may come
\* out in any order.
SortValues(table) ==
    { t \in Reorderings(table) :
        \A k \in 1..(Len(t) - 1) : t[k].Frequency >= t[k + 1].Frequency }

InitScrape ==
    /\ pc = "first_topic"
    /\ \E n \in 0..MaxRows :
         /\ \E c \in [1..n -> Range(SortedCiks)] :
              bank_8k = [i \in 1..n |-> [CIK |-> c[i]]]
         /\ \E t \in [1..n -> ScrapeTexts \cup {NoText}] :
              filing_texts = [i \in { j \in 1..n : t[j] # NoText } |-> t[i]]
    /\ freq_first_topics = <<>>
    /\ fail = "none"
    /\ result = NoResult
    /\ filings_df = <<>>
    /\ IdleFetch /\ IdleEnrich /\ IdleText /\ IdleMain /\ IdleItem1

\* Line 163: the FirstTopic column.
process_sec_filings_first_topic ==
    /\ pc = "first_topic"
    /\ bank_8k' =
          [i \in DOMAIN bank_8k |->
              [CIK |-> bank_8k[i].CIK,
               FirstTopic |-> extract_first_topic(TextOf(filing_texts, i))]]
    /\ pc' = "groupby"
    /\ UNCHANGED <<filing_texts, freq_first_topics, fail, result, NotScrape>>

\* Line 164.
process_sec_filings_groupby ==
    /\ pc = "groupby"
    /\ freq_first_topics' = GroupBySize(bank_8k)
    /\ pc' = "sort"
    /\ UNCHANGED <<bank_8k, filing_texts, fail, result, NotScrape>>

\* Line 165.
process_sec_filings_sort ==
    /\ pc = "sort"
    /\ freq_first_topics' \in SortValues(freq_first_topics)
    /\ pc' = "done"
    /\ UNCHANGED <<bank_8k, filing_texts, fail, result, NotScrape>>

NextScrape ==
    \/ process_sec_filings_first_topic
    \/ process_sec_filings_groupby
    \/ process_sec_filings_sort

SpecScrape == InitScrape /\ [][NextScrape]_vars

\* ------------------------------------------ claims on process_sec_filings
\* The index of the first record of bank_8k with the pair of a table row.
FirstSeen(row) ==
    CHOOSE i \in RowsOfKey(bank_8k, row) :
        \A j \in RowsOfKey(bank_8k, row) : i <= j

\* The table holds every pair of the batch once, with its number of records.
CountsEveryPair(table) ==
    /\ \A k \in DOMAIN table :
         table[k].Frequency = Cardinality(RowsOfKey(bank_8k, table[k]))
         /\ table[k].Frequency > 0
    /\ \A i \in DOMAIN bank_8k :
         Cardinality({ k \in DOMAIN table :
                         /\ table[k].CIK = bank_8k[i].CIK
                         /\ table[k].FirstTopic = bank_8k[i].FirstTopic }) = 1

Descending(table) ==
    \A k \in 1..(Len(table) - 1) : table[k].Frequency >= table[k + 1].Frequency

\* C12 as stated: the table is ordered by count descending, and pairs with
\* equal counts appear in first-seen order.
C12_TiesInFirstSeenOrder ==
    pc = "done" =>
        /\ Descending(freq_first_topics)
        /\ \A k \in 1..(Len(freq_first_topics) - 1) :
             freq_first_topics[k].Frequency = freq_first_topics[k + 1].Frequency
                => FirstSeen(freq_first_topics[k])
                     < FirstSeen(freq_first_topics[k + 1])

\* C12 amended: the table holds each (CIK, FirstTopic) pair of the batch once
\* with its number of records and is ordered by count descending; the order
\* of pairs with equal counts is not fixed.
C12_DescendingCounts ==
    pc = "done" =>
        /\ CountsEveryPair(freq_first_topics)
        /\ Descending(freq_first_topics)

C12_Witness ==
    /\ pc = "done"
    /\ Len(bank_8k) = 4
    /\ Len(freq_first_topics) = 3
    /\ freq_first_topics[1].Frequency = 2
    /\ freq_first_topics[2].Frequency = 1
    /\ freq_first_topics[3].Frequency = 1
    /\ FirstSeen(freq_first_topics[2]) > FirstSeen(freq_first_topics[3])

====
